---- MODULE Spec2Model ----
(***************************************************************************)
(* The KStream keystream ADT (src/hw7/KStream.c) and its front end mcrypt   *)
(* (src/hw7/mcrypt.c) as a state machine.                                   *)
(*                                                                          *)
(* Every loop iteration of the library (key scheduling, priming, translate) *)
(* is one step, so that the intermediate states of an instance are states   *)
(* of the model.  An instance slot a \in Inst is one KStream * variable of  *)
(* a client: pc[a] is where the call on it stands, ks[a] the storage it     *)
(* points to.                                                               *)
(***************************************************************************)
EXTENDS Integers, Sequences, FiniteSets

VARIABLES
    ks,      \* [Inst -> struct KStream]: the storage behind each handle
    pc,      \* [Inst -> position of the call in progress on the handle]
    frame,   \* [Inst -> locals and arguments of the call in progress]
    outbuf,  \* [Inst -> the client's output buffer]
    calls,   \* [Inst -> the translate calls the client has completed]
    cnt,     \* [Inst -> how often each part of the library has run]
    mpc,     \* mcrypt: where main stands
    env,     \* mcrypt: the command line and the files of the run
    mloc,    \* mcrypt: main's locals
    outf     \* mcrypt: what has been written to the output

libvars == <<ks, pc, frame, outbuf, cnt>>
mainvars == <<mpc, env, mloc, outf>>
vars == <<ks, pc, frame, outbuf, calls, cnt, mpc, env, mloc, outf>>

(***************************************************************************)
(* Program constants                                                        *)
(***************************************************************************)
NS == 256           \* entries of S
KEYLEN == 8         \* key bytes
PRIME == 1024       \* keystream bytes discarded by ks_prime

(***************************************************************************)
(* Bounds of the model                                                      *)
(***************************************************************************)
MaxBytes == 4       \* bytes the client passes to ks_translate, over all its calls
MaxCalls == 4       \* ks_translate calls the client makes

Inst == {1, 2}

(***************************************************************************)
(* unsigned long (64 bits) as four 16-bit limbs, least significant first:   *)
(* the value is w[1] + 2^16 w[2] + 2^32 w[3] + 2^48 w[4].                   *)
(***************************************************************************)
ULong(b) == [n \in 1 .. 4 |-> b[2 * n - 1] + 256 * b[2 * n]]
\* key & 0xFFUL
LowByte(key) == key[1] % 256
\* key >>= 8
Shr8(key) == [n \in 1 .. 4 |->
                (key[n] \div 256) + 256 * (IF n < 4 THEN key[n + 1] % 256 ELSE 0)]

\* 0x0000000000000161: its keystream repeats a byte right after priming
KeyRepeat == ULong(<<97, 1, 0, 0, 0, 0, 0, 0>>)
\* 0x0102030405060708
KeyBytesDistinct == ULong(<<8, 7, 6, 5, 4, 3, 2, 1>>)
Keys == {KeyRepeat, KeyBytesDistinct}

(***************************************************************************)
(* Bytes                                                                    *)
(***************************************************************************)
\* '+' typed for '^'
XorAsAdd(x, y) == (x + y) % 256

RECURSIVE Xor(_, _)
\* inbuf[idx] ^ k on unsigned char
Xor(x, y) ==
    IF x = 0 THEN y
    ELSE IF y = 0 THEN x
    ELSE ((x + y) % 2) + 2 * Xor(x \div 2, y \div 2)

(***************************************************************************)
(* struct KStream                                                           *)
(***************************************************************************)
KStream(S, i, j, key) == [S |-> S, i |-> i, j |-> j, key |-> key]

\* what malloc may hand out: storage with whatever bytes it held before
Fresh(g) == KStream([v \in 0 .. (NS - 1) |-> g], g, g, [k \in 0 .. (KEYLEN - 1) |-> g])
Garbage == {0, 170}
\* a handle that points to no storage
NoStorage == Fresh(0)

\* the locals of the library functions, one record per handle
NoFrame == [key |-> KeyRepeat, i |-> 0, j |-> 0, t |-> 0,
            idx |-> 0, len |-> 0, inbuf |-> <<>>, entry |-> NoStorage, at |-> 0]

NoCount == [malloc |-> 0, k2b |-> 0, ksa |-> 0, next |-> 0, prime |-> 0,
            wipe |-> 0, free |-> 0, create |-> 0, translate |-> 0, destroy |-> 0]

\* the bytes stored most significant first: out[7 - k] for out[k]
key_to_bytes_step_big_endian(key, out, k) ==
    [out |-> [out EXCEPT ![KEYLEN - 1 - k] = LowByte(key)], key |-> Shr8(key)]

(***************************************************************************)
(* key_to_bytes: one iteration of the loop, on (key, out) with index k      *)
(***************************************************************************)
key_to_bytes_step(key, out, k) ==
    [out |-> [out EXCEPT ![k] = LowByte(key)], key |-> Shr8(key)]

\* the iteration with j computed afresh instead of carried over
ks_init_state_step_fresh_j(S, key, i, j) ==
    LET j1 == (S[i] + key[i % KEYLEN]) % NS
    IN  [S |-> [S EXCEPT ![i] = S[j1], ![j1] = S[i]], j |-> j1]

(***************************************************************************)
(* ks_init_state: one iteration of the second loop, on the local j and S    *)
(***************************************************************************)
ks_init_state_step(S, key, i, j) ==
    LET j1 == (j + S[i] + key[i % KEYLEN]) % NS
    IN  [S |-> [S EXCEPT ![i] = S[j1], ![j1] = S[i]], j |-> j1]

(***************************************************************************)
(* ks_next_byte: the instance after the step, and the byte B it returns     *)
(***************************************************************************)
\* the swap without its temporary: S[i] = S[j]; S[j] = S[i]
ks_next_byte_no_tmp(k) ==
    LET i1 == (k.i + 1) % NS
        j1 == (k.j + k.S[i1]) % NS
        S1 == [k.S EXCEPT ![i1] = k.S[j1]]
    IN  [ks |-> [k EXCEPT !.i = i1, !.j = j1, !.S = S1],
         B  |-> S1[(S1[i1] + S1[j1]) % NS]]

\* j advanced by S at the old i: ks->j += ks->S[ks->i] before ks->i is stepped
ks_next_byte_old_i(k) ==
    LET i1 == (k.i + 1) % NS
        j1 == (k.j + k.S[k.i]) % NS
        S1 == [k.S EXCEPT ![i1] = k.S[j1], ![j1] = k.S[i1]]
    IN  [ks |-> [k EXCEPT !.i = i1, !.j = j1, !.S = S1],
         B  |-> S1[(S1[i1] + S1[j1]) % NS]]

ks_next_byte(k) ==
    LET i1 == (k.i + 1) % NS
        j1 == (k.j + k.S[i1]) % NS
        S1 == [k.S EXCEPT ![i1] = k.S[j1], ![j1] = k.S[i1]]
    IN  [ks |-> [k EXCEPT !.i = i1, !.j = j1, !.S = S1],
         B  |-> S1[(S1[i1] + S1[j1]) % NS]]

RECURSIVE key_to_bytes_loop(_, _, _)
key_to_bytes_loop(key, out, k) ==
    IF k < KEYLEN
    THEN LET r == key_to_bytes_step(key, out, k)
         IN  key_to_bytes_loop(r.key, r.out, k + 1)
    ELSE out

\* the loop started at k = 1: out[0] keeps what malloc left there
key_to_bytes_from_1(key, out) == key_to_bytes_loop(key, out, 1)

\* key_to_bytes(key, out): the array out after the call
key_to_bytes(key, out) == key_to_bytes_loop(key, out, 0)

(***************************************************************************)
(* The library, one action per step.  These constrain the library's         *)
(* variables ks, pc, frame, outbuf and cnt; the client that makes the call  *)
(* says what becomes of its own variables.                                  *)
(***************************************************************************)
Count(a, what) == [cnt EXCEPT ![a] = [f \in DOMAIN @ |-> @[f] + (IF f \in what THEN 1 ELSE 0)]]

\* ks_create, entry: malloc succeeds (storage holding g) or fails (NULL)
ks_create(a, key, ok, g) ==
    /\ pc[a] = "none"
    /\ ks' = [ks EXCEPT ![a] = IF ok THEN Fresh(g) ELSE @]
    /\ pc' = [pc EXCEPT ![a] = IF ok THEN "k2b" ELSE "null"]
    /\ frame' = [frame EXCEPT ![a] = [NoFrame EXCEPT !.key = key]]
    /\ cnt' = Count(a, {"create"} \cup (IF ok THEN {"malloc"} ELSE {}))
    /\ UNCHANGED outbuf

\* ks_create: key_to_bytes(key, ks->key)
ks_create_key(a) ==
    /\ pc[a] = "k2b"
    /\ ks' = [ks EXCEPT ![a].key = key_to_bytes(frame[a].key, @)]
    /\ pc' = [pc EXCEPT ![a] = "fill"]
    /\ cnt' = Count(a, {"k2b"})
    /\ UNCHANGED <<frame, outbuf>>

\* ks_init_state: S becomes the identity, the local j starts at 0
ks_init_state(a) ==
    /\ pc[a] = "fill"
    /\ ks' = [ks EXCEPT ![a].S = [v \in 0 .. (NS - 1) |-> v]]
    /\ frame' = [frame EXCEPT ![a].i = 0, ![a].j = 0]
    /\ pc' = [pc EXCEPT ![a] = "ksa"]
    /\ UNCHANGED <<outbuf, cnt>>

\* ks_init_state: one iteration of the key-scheduling loop
ks_init_state_loop(a) ==
    /\ pc[a] = "ksa"
    /\ frame[a].i < NS
    /\ LET r == ks_init_state_step(ks[a].S, ks[a].key, frame[a].i, frame[a].j)
       IN  /\ ks' = [ks EXCEPT ![a].S = r.S]
           /\ frame' = [frame EXCEPT ![a].i = @ + 1, ![a].j = r.j]
    /\ UNCHANGED <<pc, outbuf, cnt>>

\* ks_create returning after ks_init_state, ks_prime not called
ks_init_state_end_unprimed(a) ==
    /\ pc[a] = "ksa"
    /\ ~(frame[a].i < NS)
    /\ ks' = [ks EXCEPT ![a].i = 0, ![a].j = 0]
    /\ frame' = [frame EXCEPT ![a].t = 0]
    /\ pc' = [pc EXCEPT ![a] = "idle"]
    /\ cnt' = Count(a, {"ksa"})
    /\ UNCHANGED outbuf

\* ks_prime with its loop started at t = 1
ks_init_state_end_prime_from_1(a) ==
    /\ pc[a] = "ksa"
    /\ ~(frame[a].i < NS)
    /\ ks' = [ks EXCEPT ![a].i = 0, ![a].j = 0]
    /\ frame' = [frame EXCEPT ![a].t = 1]
    /\ pc' = [pc EXCEPT ![a] = "prime"]
    /\ cnt' = Count(a, {"ksa"})
    /\ UNCHANGED outbuf

\* ks_init_state without ks->i = 0u; ks->j = 0u after its loop
ks_init_state_end_no_reset(a) ==
    /\ pc[a] = "ksa"
    /\ ~(frame[a].i < NS)
    /\ frame' = [frame EXCEPT ![a].t = 0]
    /\ pc' = [pc EXCEPT ![a] = "prime"]
    /\ cnt' = Count(a, {"ksa"})
    /\ UNCHANGED <<ks, outbuf>>

\* ks_init_state: after the loop, ks->i = ks->j = 0; ks_create goes on to ks_prime
ks_init_state_end(a) ==
    /\ pc[a] = "ksa"
    /\ ~(frame[a].i < NS)
    /\ ks' = [ks EXCEPT ![a].i = 0, ![a].j = 0]
    /\ frame' = [frame EXCEPT ![a].t = 0]
    /\ pc' = [pc EXCEPT ![a] = "prime"]
    /\ cnt' = Count(a, {"ksa"})
    /\ UNCHANGED outbuf

\* ks_prime: one iteration, the byte is discarded
ks_prime(a) ==
    /\ pc[a] = "prime"
    /\ frame[a].t < PRIME
    /\ ks' = [ks EXCEPT ![a] = ks_next_byte(@).ks]
    /\ frame' = [frame EXCEPT ![a].t = @ + 1]
    /\ cnt' = Count(a, {"next"})
    /\ UNCHANGED <<pc, outbuf>>

\* ks_prime returns, ks_create returns ks
ks_create_return(a) ==
    /\ pc[a] = "prime"
    /\ ~(frame[a].t < PRIME)
    /\ pc' = [pc EXCEPT ![a] = "idle"]
    /\ cnt' = Count(a, {"prime"})
    /\ UNCHANGED <<ks, frame, outbuf>>

\* ks_translate returns at once: ks == NULL || len == 0u
ReturnsAtOnce(a, len) == pc[a] = "null" \/ len = 0

\* ks_translate with its loop started at idx = 1
ks_translate_from_1(a, inbuf, len) ==
    /\ pc[a] \in {"idle", "null"}
    /\ frame' = [frame EXCEPT ![a].inbuf = inbuf, ![a].len = len, ![a].idx = 1,
                              ![a].entry = ks[a], ![a].at = cnt[a].next]
    /\ pc' = [pc EXCEPT ![a] = IF ReturnsAtOnce(a, len) THEN @ ELSE "xlate"]
    /\ cnt' = Count(a, {"translate"})
    /\ UNCHANGED <<ks, outbuf>>

\* ks_translate fetching its first keystream byte before it looks at len
ks_translate_prefetch(a, inbuf, len) ==
    /\ pc[a] \in {"idle", "null"}
    /\ frame' = [frame EXCEPT ![a].inbuf = inbuf, ![a].len = len, ![a].idx = 0,
                              ![a].entry = ks[a], ![a].at = cnt[a].next]
    /\ pc' = [pc EXCEPT ![a] = IF ReturnsAtOnce(a, len) THEN @ ELSE "xlate"]
    /\ cnt' = Count(a, {"translate"})
    /\ ks' = [ks EXCEPT ![a] = IF pc[a] = "null" THEN @ ELSE ks_next_byte(@).ks]
    /\ UNCHANGED outbuf

\* ks_translate resetting the indices on entry
ks_translate_rewinds(a, inbuf, len) ==
    /\ pc[a] \in {"idle", "null"}
    /\ frame' = [frame EXCEPT ![a].inbuf = inbuf, ![a].len = len, ![a].idx = 0,
                              ![a].entry = ks[a], ![a].at = cnt[a].next]
    /\ pc' = [pc EXCEPT ![a] = IF ReturnsAtOnce(a, len) THEN @ ELSE "xlate"]
    /\ cnt' = Count(a, {"translate"})
    /\ ks' = [ks EXCEPT ![a].i = 0, ![a].j = 0]
    /\ UNCHANGED outbuf

\* ks_translate, entry
ks_translate(a, inbuf, len) ==
    /\ pc[a] \in {"idle", "null"}
    /\ frame' = [frame EXCEPT ![a].inbuf = inbuf, ![a].len = len, ![a].idx = 0,
                              ![a].entry = ks[a], ![a].at = cnt[a].next]
    /\ pc' = [pc EXCEPT ![a] = IF ReturnsAtOnce(a, len) THEN @ ELSE "xlate"]
    /\ cnt' = Count(a, {"translate"})
    /\ UNCHANGED <<ks, outbuf>>

\* the loop body with ks_next_byte working on a copy of *ks
ks_translate_body_by_value(k, inbuf, ob, idx) ==
    LET r == ks_next_byte(k)
    IN  [ks |-> k, outbuf |-> [ob EXCEPT ![idx + 1] = Xor(inbuf[idx + 1], r.B)]]

\* ks_translate, the loop body at idx: the instance and the output buffer after it
ks_translate_body(k, inbuf, ob, idx) ==
    LET r == ks_next_byte(k)
    IN  [ks |-> r.ks, outbuf |-> [ob EXCEPT ![idx + 1] = Xor(inbuf[idx + 1], r.B)]]

\* the loop with ks_next_byte keeping its indices in two file-scope statics,
\* one pair for all instances (held here in the storage behind handle 1)
ks_translate_loop_static(a) ==
    /\ pc[a] = "xlate"
    /\ frame[a].idx < frame[a].len
    /\ LET r == ks_translate_body([ks[a] EXCEPT !.i = ks[1].i, !.j = ks[1].j],
                                  frame[a].inbuf, outbuf[a], frame[a].idx)
       IN  /\ ks' = [[ks EXCEPT ![a] = r.ks] EXCEPT ![1].i = r.ks.i, ![1].j = r.ks.j]
           /\ outbuf' = [outbuf EXCEPT ![a] = r.outbuf]
    /\ frame' = [frame EXCEPT ![a].idx = @ + 1]
    /\ cnt' = Count(a, {"next"})
    /\ UNCHANGED pc

\* ks_translate: one iteration of the loop
ks_translate_loop(a) ==
    /\ pc[a] = "xlate"
    /\ frame[a].idx < frame[a].len
    /\ LET r == ks_translate_body(ks[a], frame[a].inbuf, outbuf[a], frame[a].idx)
       IN  /\ ks' = [ks EXCEPT ![a] = r.ks]
           /\ outbuf' = [outbuf EXCEPT ![a] = r.outbuf]
    /\ frame' = [frame EXCEPT ![a].idx = @ + 1]
    /\ cnt' = Count(a, {"next"})
    /\ UNCHANGED pc

RECURSIVE ks_translate_run(_, _, _, _)
\* the loop from idx on, n iterations: st is [ks, outbuf].  (The iterations are
\* split in two halves to keep the evaluation shallow; the test on half has
\* the first half evaluated before the second.)
ks_translate_run(st, inbuf, idx, n) ==
    IF n = 0 THEN st
    ELSE IF n = 1 THEN ks_translate_body(st.ks, inbuf, st.outbuf, idx)
    ELSE LET h == n \div 2
             half == ks_translate_run(st, inbuf, idx, h)
         IN  IF DOMAIN half = {} THEN half
             ELSE ks_translate_run(half, inbuf, idx + h, n - h)

\* ks_translate from entry to return, for a client that takes the call as one step
ks_translate_call(a, inbuf, len) ==
    /\ pc[a] \in {"idle", "null"}
    /\ LET r == IF ReturnsAtOnce(a, len)
                THEN [ks |-> ks[a], outbuf |-> outbuf[a]]
                ELSE ks_translate_run([ks |-> ks[a], outbuf |-> outbuf[a]], inbuf, 0, len)
           n == IF ReturnsAtOnce(a, len) THEN 0 ELSE len
       IN  /\ ks' = [ks EXCEPT ![a] = r.ks]
           /\ outbuf' = [outbuf EXCEPT ![a] = r.outbuf]
           /\ frame' = [frame EXCEPT ![a].inbuf = inbuf, ![a].len = len, ![a].idx = n,
                                     ![a].entry = ks[a], ![a].at = cnt[a].next]
           /\ cnt' = [cnt EXCEPT ![a].translate = @ + 1, ![a].next = @ + n]
    /\ UNCHANGED pc

\* ks_translate returns after the loop
ks_translate_return(a) ==
    /\ pc[a] = "xlate"
    /\ ~(frame[a].idx < frame[a].len)
    /\ pc' = [pc EXCEPT ![a] = "idle"]
    /\ UNCHANGED <<ks, frame, outbuf, cnt>>

RECURSIVE ks_init_state_run(_, _, _, _)
\* ks_init_state: n iterations of the key-scheduling loop from i, on st = [S, j]
ks_init_state_run(st, key, i, n) ==
    IF n = 0 THEN st
    ELSE IF n = 1 THEN ks_init_state_step(st.S, key, i, st.j)
    ELSE LET h == n \div 2
             half == ks_init_state_run(st, key, i, h)
         IN  IF DOMAIN half = {} THEN half
             ELSE ks_init_state_run(half, key, i + h, n - h)

RECURSIVE ks_next_byte_run(_, _)
\* n calls of ks_next_byte on k, the bytes dropped: the instance after them
ks_next_byte_run(k, n) ==
    IF n = 0 THEN k
    ELSE IF n = 1 THEN ks_next_byte(k).ks
    ELSE LET h == n \div 2
             half == ks_next_byte_run(k, h)
         IN  IF DOMAIN half = {} THEN half
             ELSE ks_next_byte_run(half, n - h)

\* ks_create from malloc (storage holding g) to return, taken as one step
ks_create_run(key, g) ==
    LET bytes == key_to_bytes(key, Fresh(g).key)
        r == ks_init_state_run([S |-> [v \in 0 .. (NS - 1) |-> v], j |-> 0], bytes, 0, NS)
    IN  ks_next_byte_run(KStream(r.S, 0, 0, bytes), PRIME)

\* the wipe without the memset of ks->key
WipedSOnly(k) == KStream([v \in 0 .. (NS - 1) |-> 0], 0, 0, k.key)

\* ks_destroy: memset(ks->S, 0, ..), memset(ks->key, 0, ..), ks->i = ks->j = 0
Wiped(k) == KStream([v \in 0 .. (NS - 1) |-> 0], 0, 0, [n \in 0 .. (KEYLEN - 1) |-> 0])

\* ks_destroy, up to the call of free: NULL returns at once, else the wipe
ks_destroy(a) ==
    /\ pc[a] \in {"idle", "null"}
    /\ IF pc[a] = "null"
       THEN UNCHANGED <<ks, pc>> /\ cnt' = Count(a, {"destroy"})
       ELSE /\ ks' = [ks EXCEPT ![a] = Wiped(@)]
            /\ pc' = [pc EXCEPT ![a] = "free"]
            /\ cnt' = Count(a, {"destroy", "wipe"})
    /\ UNCHANGED <<frame, outbuf>>

\* ks_destroy: free(ks)
ks_destroy_free(a) ==
    /\ pc[a] = "free"
    /\ pc' = [pc EXCEPT ![a] = "freed"]
    /\ cnt' = Count(a, {"free"})
    /\ UNCHANGED <<ks, frame, outbuf>>

(***************************************************************************)
(* A client of the library: it holds the handles of Inst, makes one call    *)
(* at a time (the library is single-threaded) and keeps what it passed to   *)
(* and got from every ks_translate call.                                    *)
(***************************************************************************)
PlainBytes == {72}
Bufs(n) == UNION {[1 .. m -> PlainBytes] : m \in 0 .. n}

RECURSIVE Cat(_, _)
\* the concatenation of field f over the calls cs
Cat(cs, f) == IF cs = <<>> THEN <<>> ELSE cs[1][f] \o Cat(Tail(cs), f)
Input(a) == Cat(calls[a], "inb")
Output(a) == Cat(calls[a], "outb")

Quiescent(a) == pc[a] \in {"none", "null", "idle", "freed"}
Serial(a) == \A b \in Inst \ {a} : Quiescent(b)

RECURSIVE Sum(_, _)
Sum(f, D) == IF D = {} THEN 0 ELSE LET d == CHOOSE x \in D : TRUE IN f[d] + Sum(f, D \ {d})
BytesPassed == Sum([a \in Inst |-> Len(Input(a))], Inst)
CallsMade == Sum([a \in Inst |-> Len(calls[a])], Inst)

\* the call as the client records it when it returns
Call(a, inbuf, len, ob) ==
    [inb |-> SubSeq(inbuf, 1, len), outb |-> SubSeq(ob, 1, len), at |-> cnt[a].next,
     i0 |-> ks[a].i]

\* the buffers the client may pass: plain text or, in the first call on an
\* instance, what another instance has put out
InBufs(a) ==
    LET room == MaxBytes - BytesPassed
    IN  Bufs(room)
        \cup (IF calls[a] = <<>>
              THEN {Output(b) : b \in {c \in Inst \ {a} : Len(Output(c)) \in 1 .. room}}
              ELSE {})

\* the client makes its generators first, in the order of the handles
Create(a) ==
    /\ Serial(a)
    /\ \A b \in Inst : b < a => pc[b] # "none"
    /\ \A b \in Inst : calls[b] = <<>> /\ cnt[b].destroy = 0
    /\ \E key \in Keys, ok \in BOOLEAN, g \in Garbage : ks_create(a, key, ok, g)
    /\ UNCHANGED <<calls, mainvars>>

\* the steps of a call in progress leave the client's variables alone
CreateKey(a) == ks_create_key(a) /\ UNCHANGED <<calls, mainvars>>
InitState(a) == ks_init_state(a) /\ UNCHANGED <<calls, mainvars>>
InitStateLoop(a) == ks_init_state_loop(a) /\ UNCHANGED <<calls, mainvars>>
InitStateEnd(a) == ks_init_state_end(a) /\ UNCHANGED <<calls, mainvars>>
Prime(a) == ks_prime(a) /\ UNCHANGED <<calls, mainvars>>
CreateReturn(a) == ks_create_return(a) /\ UNCHANGED <<calls, mainvars>>

Translate(a) ==
    /\ Serial(a)
    /\ CallsMade < MaxCalls
    /\ \E buf \in InBufs(a) :
          /\ ks_translate(a, buf, Len(buf))
          /\ calls' = IF ReturnsAtOnce(a, Len(buf))
                      THEN [calls EXCEPT ![a] = Append(@, Call(a, buf, Len(buf), outbuf[a]))]
                      ELSE calls
    /\ UNCHANGED mainvars

TranslateStep(a) ==
    /\ ks_translate_loop(a)
    /\ UNCHANGED <<calls, mainvars>>

TranslateReturn(a) ==
    /\ ks_translate_return(a)
    /\ calls' = [calls EXCEPT ![a] =
                    Append(@, [Call(a, frame[a].inbuf, frame[a].len, outbuf[a])
                                 EXCEPT !.at = frame[a].at, !.i0 = frame[a].entry.i])]
    /\ UNCHANGED mainvars

\* the client destroys a handle once, the handles in their order
Destroy(a) ==
    /\ Serial(a)
    /\ cnt[a].destroy = 0
    /\ \A b \in Inst : b < a => pc[b] \in {"null", "freed"}
    /\ ks_destroy(a)
    /\ UNCHANGED <<calls, mainvars>>

DestroyFree(a) ==
    /\ ks_destroy_free(a)
    /\ UNCHANGED <<calls, mainvars>>

NoMain == [mpc |-> "off", env |-> <<>>, mloc |-> <<>>, outf |-> <<>>]

Init ==
    /\ ks = [a \in Inst |-> NoStorage]
    /\ pc = [a \in Inst |-> "none"]
    /\ frame = [a \in Inst |-> NoFrame]
    /\ outbuf = [a \in Inst |-> [n \in 1 .. MaxBytes |-> 238]]
    /\ calls = [a \in Inst |-> <<>>]
    /\ cnt = [a \in Inst |-> NoCount]
    /\ mpc = NoMain.mpc
    /\ env = NoMain.env
    /\ mloc = NoMain.mloc
    /\ outf = NoMain.outf

Next ==
    \E a \in Inst :
        \/ Create(a)
        \/ CreateKey(a)
        \/ InitState(a)
        \/ InitStateLoop(a)
        \/ InitStateEnd(a)
        \/ Prime(a)
        \/ CreateReturn(a)
        \/ Translate(a)
        \/ TranslateStep(a)
        \/ TranslateReturn(a)
        \/ Destroy(a)
        \/ DestroyFree(a)

Spec == Init /\ [][Next]_vars

(***************************************************************************)
(* Two threads, one per instance: each makes ks_translate calls on its own  *)
(* handle, and their steps interleave byte by byte.  The handles are made   *)
(* in their order, the second (with the key of the first or another) while *)
(* the first may be in the middle of a call.                                *)
(***************************************************************************)
ParBytes == 2       \* bytes a thread passes to ks_translate, over all its calls
ParCalls == 2       \* ks_translate calls a thread makes

ParCreate(a) ==
    /\ \A b \in Inst : b < a => pc[b] \notin {"none", "k2b", "fill", "ksa", "prime"}
    /\ \E key \in (IF a = 1 THEN {KeyRepeat} ELSE Keys), ok \in BOOLEAN :
          ks_create(a, key, ok, 170)
    /\ UNCHANGED <<calls, mainvars>>

ParTranslate(a) ==
    /\ Len(calls[a]) < ParCalls
    /\ \E buf \in Bufs(ParBytes - Len(Input(a))) :
          /\ ks_translate(a, buf, Len(buf))
          /\ calls' = IF ReturnsAtOnce(a, Len(buf))
                      THEN [calls EXCEPT ![a] = Append(@, Call(a, buf, Len(buf), outbuf[a]))]
                      ELSE calls
    /\ UNCHANGED mainvars

\* the handles are destroyed when the threads are done, in their order
ParDestroy(a) ==
    /\ cnt[a].destroy = 0
    /\ \A b \in Inst : /\ Quiescent(b)
                       /\ pc[b] # "none"
                       /\ b < a => pc[b] \in {"null", "freed"}
                       /\ Len(calls[b]) = ParCalls
    /\ ks_destroy(a)
    /\ UNCHANGED <<calls, mainvars>>

ParNext ==
    \E a \in Inst :
        \/ ParCreate(a)
        \/ CreateKey(a)
        \/ InitState(a)
        \/ InitStateLoop(a)
        \/ InitStateEnd(a)
        \/ Prime(a)
        \/ CreateReturn(a)
        \/ ParTranslate(a)
        \/ TranslateStep(a)
        \/ TranslateReturn(a)
        \/ ParDestroy(a)
        \/ DestroyFree(a)

SpecPar == Init /\ [][ParNext]_vars

(***************************************************************************)
(* ks_create alone, over keys whose bytes include 0x00, 0x01, 0x80 and 0xFF *)
(* in every position, and the keys of the other specifications.             *)
(***************************************************************************)
KeyLimbs == {0, 33023, 65281}       \* 0x0000, 0x80FF, 0xFF01
KeySamples == [1 .. 4 -> KeyLimbs] \cup Keys

KeyCreate ==
    /\ \E key \in KeySamples, ok \in BOOLEAN : ks_create(1, key, ok, 170)
    /\ UNCHANGED <<calls, mainvars>>

KeyNext ==
    \/ KeyCreate
    \/ CreateKey(1)
    \/ InitState(1)
    \/ InitStateLoop(1)
    \/ InitStateEnd(1)
    \/ Prime(1)
    \/ CreateReturn(1)

SpecKey == Init /\ [][KeyNext]_vars

(***************************************************************************)
(* mcrypt: main, with the run's command line and files in env.  Its one     *)
(* KStream * is handle 1.                                                    *)
(***************************************************************************)
CHUNK == 4096
AllOnes == ULong(<<255, 255, 255, 255, 255, 255, 255, 255>>)
Min(x, y) == IF x < y THEN x ELSE y

\* byte n (from 0) of the input file f
InByte(f, n) == (f.seed + 7 * n) % 256

\* the key file: absent, or its bytes
KeyFiles ==
    {[there |-> FALSE, bytes |-> <<>>],
     [there |-> TRUE, bytes |-> <<8, 7, 6>>],
     [there |-> TRUE, bytes |-> <<8, 7, 6, 5, 4, 3, 2, 1>>],
     [there |-> TRUE, bytes |-> <<97, 1, 0, 0, 0, 0, 0, 0, 9>>],
     [there |-> TRUE, bytes |-> <<255, 255, 255, 255, 255, 255, 255, 255>>]}
\* the input file: absent, or len bytes, with a read error at offset err
InFiles ==
    {[there |-> FALSE, len |-> 0, seed |-> 0, err |-> -1]}
    \cup {[there |-> TRUE, len |-> n, seed |-> 72, err |-> -1] : n \in {0, 3, CHUNK, CHUNK + 1}}
    \cup {[there |-> TRUE, len |-> 3, seed |-> 72, err |-> 2]}
\* argv[3]: "-", a file that opens, a file that does not
OutPaths == {"-", "out", "denied"}
Envs == [argc : {3, 4}, keyfile : KeyFiles, infile : InFiles, outpath : OutPaths]

NoLocals == [key |-> AllOnes, to_stdout |-> FALSE, inbuf |-> <<>>, nread |-> 0,
             inpos |-> 0, status |-> "none", passed |-> <<>>]

\* read_keyfile: the key, or (unsigned long)-1 on error
read_keyfile(kf) ==
    IF ~kf.there THEN AllOnes
    ELSE IF Len(kf.bytes) < KEYLEN THEN AllOnes
    ELSE ULong(kf.bytes)

\* fread(inbuf, 1u, CHUNK, inf) at offset pos: the count it returns
fread(f, pos) ==
    IF f.err >= pos /\ f.err < pos + CHUNK /\ f.err < f.len
    THEN f.err - pos
    ELSE Min(CHUNK, f.len - pos)

\* the console form of byte b: itself if isprint(b), else two hex digits
HexDigit(d) == IF d < 10 THEN 48 + d ELSE 87 + d
Rendered(b) == IF b >= 32 /\ b <= 126 THEN <<b>> ELSE <<HexDigit(b \div 16), HexDigit(b % 16)>>
RECURSIVE RenderAll(_, _, _)
RenderAll(buf, from, to) ==
    IF from > to THEN <<>>
    ELSE IF from = to THEN Rendered(buf[from])
    ELSE LET mid == (from + to) \div 2
         IN  RenderAll(buf, from, mid) \o RenderAll(buf, mid + 1, to)

Exit(status) ==
    /\ mpc' = "exit"
    /\ mloc' = [mloc EXCEPT !.status = status]

\* lines 71-74
MainArgs ==
    /\ mpc = "start"
    /\ IF env.argc # 4 THEN Exit("FAILURE") ELSE mpc' = "key" /\ UNCHANGED mloc
    /\ UNCHANGED <<libvars, calls, env, outf>>

\* lines 80-83
MainReadKey ==
    /\ mpc = "key"
    /\ LET key == read_keyfile(env.keyfile)
       IN  IF key = AllOnes
           THEN Exit("FAILURE")
           ELSE mpc' = "openin" /\ mloc' = [mloc EXCEPT !.key = key]
    /\ UNCHANGED <<libvars, calls, env, outf>>

\* lines 85-91
MainOpenIn ==
    /\ mpc = "openin"
    /\ IF ~env.infile.there THEN Exit("FAILURE") ELSE mpc' = "openout" /\ UNCHANGED mloc
    /\ UNCHANGED <<libvars, calls, env, outf>>

\* lines 93-105
MainOpenOut ==
    /\ mpc = "openout"
    /\ IF env.outpath = "-"
       THEN mpc' = "create" /\ mloc' = [mloc EXCEPT !.to_stdout = TRUE]
       ELSE IF env.outpath = "denied"
       THEN Exit("FAILURE")
       ELSE mpc' = "create" /\ mloc' = [mloc EXCEPT !.to_stdout = FALSE]
    /\ UNCHANGED <<libvars, calls, env, outf>>

\* line 107: the call of ks_create
MainCreate ==
    /\ mpc = "create"
    /\ \E ok \in BOOLEAN, g \in Garbage : ks_create(1, mloc.key, ok, g)
    /\ mpc' = "creating"
    /\ UNCHANGED <<calls, env, mloc, outf>>

\* lines 108-116: ks_create has returned
MainCreated ==
    /\ mpc = "creating"
    /\ pc[1] \in {"idle", "null"}
    /\ IF pc[1] = "null" THEN Exit("FAILURE") ELSE mpc' = "alloc" /\ UNCHANGED mloc
    /\ UNCHANGED <<libvars, calls, env, outf>>

\* lines 119-132: the two buffers (holding g, which is never read); if one is
\* missing, ks_destroy and out
MainAlloc ==
    /\ mpc = "alloc"
    /\ \E inOk, outOk \in BOOLEAN, g \in {170} :
          IF inOk /\ outOk
          THEN /\ mloc' = [mloc EXCEPT !.inbuf = [n \in 1 .. CHUNK |-> g]]
               /\ outbuf' = [outbuf EXCEPT ![1] = [n \in 1 .. CHUNK |-> g]]
               /\ mpc' = "read"
               /\ UNCHANGED <<ks, pc, frame, cnt>>
          ELSE /\ ks_destroy(1)
               /\ mpc' = "failing"
               /\ UNCHANGED mloc
    /\ UNCHANGED <<calls, env, outf>>

\* lines 135-138: fread, and the end of the loop on a count of 0
MainRead ==
    /\ mpc = "read"
    /\ LET nread == fread(env.infile, mloc.inpos)
       IN  /\ mloc' = [mloc EXCEPT
                          !.nread = nread,
                          !.inpos = @ + nread,
                          !.inbuf = [n \in 1 .. CHUNK |->
                                        IF n <= nread
                                        THEN InByte(env.infile, mloc.inpos + n - 1)
                                        ELSE @[n]]]
           /\ mpc' = IF nread = 0 THEN "cleanup" ELSE "translate"
    /\ UNCHANGED <<libvars, calls, env, outf>>

\* line 140: ks_translate(ks, inbuf, outbuf, nread), from call to return
MainTranslate ==
    /\ mpc = "translate"
    /\ ks_translate_call(1, mloc.inbuf, mloc.nread)
    /\ mpc' = "write"
    /\ mloc' = [mloc EXCEPT !.passed = Append(@, mloc.nread)]
    /\ UNCHANGED <<calls, env, outf>>

\* the write with a short fwrite returning at once, ks_destroy not called
MainWrite_leaks ==
    /\ mpc = "write"
    /\ IF mloc.to_stdout
       THEN /\ outf' = outf \o RenderAll(outbuf[1], 1, mloc.nread)
            /\ mpc' = IF mloc.nread < CHUNK THEN "cleanup" ELSE "read"
            /\ UNCHANGED mloc
       ELSE \E wrote \in {0, mloc.nread - 1, mloc.nread} :
               /\ outf' = outf \o SubSeq(outbuf[1], 1, wrote)
               /\ IF wrote # mloc.nread
                  THEN Exit("FAILURE")
                  ELSE /\ mpc' = IF mloc.nread < CHUNK THEN "cleanup" ELSE "read"
                       /\ UNCHANGED mloc
    /\ UNCHANGED <<libvars, calls, env>>

\* lines 142-169: the chunk goes out; a short fwrite ends the run through
\* ks_destroy; a short chunk ends the loop
MainWrite ==
    /\ mpc = "write"
    /\ IF mloc.to_stdout
       THEN /\ outf' = outf \o RenderAll(outbuf[1], 1, mloc.nread)
            /\ mpc' = IF mloc.nread < CHUNK THEN "cleanup" ELSE "read"
            /\ UNCHANGED libvars
       ELSE \E wrote \in {0, mloc.nread - 1, mloc.nread} :
               /\ outf' = outf \o SubSeq(outbuf[1], 1, wrote)
               /\ IF wrote # mloc.nread
                  THEN ks_destroy(1) /\ mpc' = "failing"
                  ELSE /\ mpc' = IF mloc.nread < CHUNK THEN "cleanup" ELSE "read"
                       /\ UNCHANGED libvars
    /\ UNCHANGED <<calls, env, mloc>>

\* lines 172-174: after the loop
MainCleanup ==
    /\ mpc = "cleanup"
    /\ ks_destroy(1)
    /\ mpc' = "ending"
    /\ UNCHANGED <<calls, env, mloc, outf>>

\* ks_destroy has returned: the files are closed and main returns
MainReturn ==
    /\ mpc \in {"ending", "failing"}
    /\ pc[1] = "freed"
    /\ Exit(IF mpc = "ending" THEN "SUCCESS" ELSE "FAILURE")
    /\ UNCHANGED <<libvars, calls, env, outf>>

MainInit ==
    /\ ks = [a \in Inst |-> NoStorage]
    /\ pc = [a \in Inst |-> "none"]
    /\ frame = [a \in Inst |-> NoFrame]
    /\ outbuf = [a \in Inst |-> <<>>]
    /\ calls = [a \in Inst |-> <<>>]
    /\ cnt = [a \in Inst |-> NoCount]
    /\ mpc = "start"
    /\ env \in Envs
    /\ mloc = NoLocals
    /\ outf = <<>>

MainNext ==
    \/ MainArgs
    \/ MainReadKey
    \/ MainOpenIn
    \/ MainOpenOut
    \/ MainCreate
    \/ CreateKey(1)
    \/ InitState(1)
    \/ InitStateLoop(1)
    \/ InitStateEnd(1)
    \/ Prime(1)
    \/ CreateReturn(1)
    \/ MainCreated
    \/ MainAlloc
    \/ MainRead
    \/ MainTranslate
    \/ MainWrite
    \/ MainCleanup
    \/ DestroyFree(1)
    \/ MainReturn

SpecMain == MainInit /\ [][MainNext]_vars

(***************************************************************************)
(* Properties                                                               *)
(***************************************************************************)
Valid(a) == cnt[a].malloc = 1
IsPermutation(S) ==
    /\ DOMAIN S = 0 .. (NS - 1)
    /\ {S[n] : n \in 0 .. (NS - 1)} = 0 .. (NS - 1)

\* C1: once ks_create has come to priming, and from then on after every
\* ks_next_byte step (the 1024 steps of ks_prime, every byte of ks_translate)
\* and between the calls, S holds every value 0..255 exactly once.
PermutationInvariant ==
    \A a \in Inst : pc[a] \in {"prime", "idle", "xlate"} => IsPermutation(ks[a].S)

\* a byte has been produced inside ks_translate, after the whole of priming
PermutationWitness ==
    \E a \in Inst : /\ pc[a] = "xlate"
                    /\ frame[a].idx >= 1
                    /\ cnt[a].next > PRIME
                    /\ IsPermutation(ks[a].S)
                    /\ ks[a].S # [v \in 0 .. (NS - 1) |-> v]

SameKey(a, b) == Valid(a) /\ Valid(b) /\ frame[a].key = frame[b].key

\* C2: with C the output of the first ks_translate call, on P, of an instance
\* made with key K, the first ks_translate call of another instance made with
\* K, when given C, puts out P.
Involution ==
    \A a, b \in Inst :
        (/\ a # b
         /\ SameKey(a, b)
         /\ calls[a] # <<>>
         /\ calls[b] # <<>>
         /\ calls[b][1].inb = calls[a][1].outb)
        => calls[b][1].outb = calls[a][1].inb

\* P of two bytes went through one instance and its output through the other
InvolutionWitness ==
    \E a, b \in Inst :
        /\ a # b
        /\ SameKey(a, b)
        /\ calls[a] # <<>>
        /\ calls[b] # <<>>
        /\ Len(calls[a][1].inb) = 2
        /\ calls[a][1].outb # calls[a][1].inb
        /\ calls[b][1].inb = calls[a][1].outb
        /\ calls[b][1].outb = calls[a][1].inb

\* C3: the calls of instance a on the consecutive pieces of P (empty ones
\* included) put out, concatenated, what the single call of an identically
\* keyed instance b on all of P puts out, and leave a in the state (S, i, j)
\* b is left in.
ChunkInvariance ==
    \A a, b \in Inst :
        (/\ a # b
         /\ SameKey(a, b)
         /\ Quiescent(a)
         /\ Quiescent(b)
         /\ Len(calls[b]) = 1
         /\ Input(a) = Input(b))
        => /\ Output(a) = Output(b)
           /\ (pc[a] = "idle" /\ pc[b] = "idle") => ks[a] = ks[b]

\* a took P in three pieces, one of them empty, b in one
ChunkInvarianceWitness ==
    \E a, b \in Inst :
        /\ a # b
        /\ SameKey(a, b)
        /\ pc[a] = "idle"
        /\ pc[b] = "idle"
        /\ Len(calls[b]) = 1
        /\ Len(calls[a]) = 3
        /\ \E n \in 1 .. 3 : calls[a][n].inb = <<>>
        /\ Len(Input(a)) = 2
        /\ Input(a) = Input(b)
        /\ Output(a) = Output(b)
        /\ ks[a] = ks[b]

Inputs(a) == [n \in 1 .. Len(calls[a]) |-> calls[a][n].inb]
Outputs(a) == [n \in 1 .. Len(calls[a]) |-> calls[a][n].outb]

\* C4: two instances made with the same key and given the same sequence of
\* ks_translate calls have put out the same bytes in every call and, between
\* calls, hold the same S, i and j (and key bytes).
Determinism ==
    \A a, b \in Inst :
        (/\ a # b
         /\ SameKey(a, b)
         /\ Quiescent(a)
         /\ Quiescent(b)
         /\ Inputs(a) = Inputs(b))
        => /\ Outputs(a) = Outputs(b)
           /\ (pc[a] = "idle" /\ pc[b] = "idle") => ks[a] = ks[b]

\* both instances have made the same two calls of one byte each
DeterminismWitness ==
    \E a, b \in Inst :
        /\ a # b
        /\ SameKey(a, b)
        /\ pc[a] = "idle"
        /\ pc[b] = "idle"
        /\ Len(calls[a]) = 2
        /\ Len(Input(a)) = 2
        /\ Inputs(a) = Inputs(b)
        /\ Outputs(a) = Outputs(b)
        /\ ks[a] = ks[b]

RECURSIVE Advance(_, _)
\* the instance k after n ks_next_byte steps
Advance(k, n) == IF n = 0 THEN k ELSE ks_next_byte(Advance(k, n - 1)).ks
\* g(t): the byte of step t + 1 from k
G(k, t) == ks_next_byte(Advance(k, t)).B

\* C5: when ks_translate returns from a call with len >= 1 on a valid
\* instance, outbuf[t] = inbuf[t] XOR g(t) for every t in [0, len), with g(t)
\* the byte of ks_next_byte step t + 1 from the state at entry, and the
\* instance is the entry state after exactly len ks_next_byte steps (which is
\* also what the call taken as one step, ks_translate_run, comes to).
TranslateContract ==
    \A a \in Inst :
        (Valid(a) /\ pc[a] = "idle" /\ cnt[a].translate >= 1 /\ frame[a].len >= 1)
        => /\ \A t \in 0 .. (frame[a].len - 1) :
                  outbuf[a][t + 1] = Xor(frame[a].inbuf[t + 1], G(frame[a].entry, t))
           /\ ks[a] = Advance(frame[a].entry, frame[a].len)
           /\ cnt[a].next = frame[a].at + frame[a].len
           /\ ks_translate_run([ks |-> frame[a].entry, outbuf |-> outbuf[a]],
                               frame[a].inbuf, 0, frame[a].len)
              = [ks |-> ks[a], outbuf |-> outbuf[a]]

\* a call of two bytes has returned, not the first call on its instance
TranslateContractWitness ==
    \E a \in Inst :
        /\ Valid(a)
        /\ pc[a] = "idle"
        /\ Len(calls[a]) = 2
        /\ Len(calls[a][1].inb) >= 1
        /\ frame[a].len = 2
        /\ ks[a] # frame[a].entry
        /\ outbuf[a][2] = Xor(frame[a].inbuf[2], G(frame[a].entry, 1))

NonEmpty(a) == SelectSeq(calls[a], LAMBDA c : c.inb # <<>>)
InputsOf(cs) == [n \in 1 .. Len(cs) |-> cs[n].inb]
OutputsOf(cs) == [n \in 1 .. Len(cs) |-> cs[n].outb]

\* C6: a ks_translate call with len == 0 changes neither S, i, j, the key
\* bytes nor the output buffer, and the bytes put out by the other calls are
\* those an identically keyed instance puts out that was given the same calls
\* without the empty ones.
ZeroLengthNoOp ==
    /\ [][\A a \in Inst :
            (cnt'[a].translate = cnt[a].translate + 1 /\ frame'[a].len = 0)
            => (ks' = ks /\ outbuf' = outbuf /\ pc' = pc)]_vars
    /\ [](\A a, b \in Inst :
            (/\ a # b
             /\ SameKey(a, b)
             /\ Quiescent(a)
             /\ Quiescent(b)
             /\ InputsOf(NonEmpty(a)) = InputsOf(calls[b]))
            => /\ OutputsOf(NonEmpty(a)) = OutputsOf(calls[b])
               /\ (pc[a] = "idle" /\ pc[b] = "idle") => ks[a] = ks[b])

\* right after ks_create, a made an empty call and then a call of one byte,
\* b the call of one byte alone
ZeroLengthNoOpWitness ==
    \E a, b \in Inst :
        /\ a # b
        /\ SameKey(a, b)
        /\ Len(calls[a]) = 2
        /\ calls[a][1].inb = <<>>
        /\ Len(calls[a][2].inb) = 1
        /\ Len(calls[b]) = 1
        /\ calls[b][1].inb = calls[a][2].inb
        /\ calls[b][1].outb = calls[a][2].outb

\* the keystream bytes a call consumed
Keystream(c) == [t \in 1 .. Len(c.inb) |-> Xor(c.inb[t], c.outb[t])]
RECURSIVE BytesBetween(_, _, _)
\* the bytes translated by calls m .. n - 1 of a
BytesBetween(a, m, n) ==
    IF m >= n THEN 0 ELSE Len(calls[a][m].inb) + BytesBetween(a, m + 1, n)
SameLenCalls(a) ==
    {p \in (1 .. Len(calls[a])) \X (1 .. Len(calls[a])) :
        /\ p[1] < p[2]
        /\ Len(calls[a][p[1]].inb) >= 1
        /\ Len(calls[a][p[1]].inb) = Len(calls[a][p[2]].inb)}

\* C7, as claimed: of two ks_translate calls with the same length len >= 1 on
\* one instance, the second consumes a keystream segment that differs from the
\* segment the first consumed.
KeystreamNeverRepeats ==
    \A a \in Inst :
        Valid(a) => \A p \in SameLenCalls(a) :
                        Keystream(calls[a][p[1]]) # Keystream(calls[a][p[2]])

\* C7, amended: of two ks_translate calls with the same length len >= 1 on
\* one instance, the second starts where the calls before it left the
\* generator: at its entry, index i and the count of ks_next_byte steps are
\* ahead of their values at the entry of the first by the number of bytes
\* translated from the first on, which is at least len.
SecondCallContinues ==
    \A a \in Inst :
        Valid(a) => \A p \in SameLenCalls(a) :
                        LET c1 == calls[a][p[1]]
                            c2 == calls[a][p[2]]
                            n == BytesBetween(a, p[1], p[2])
                        IN  /\ n >= Len(c1.inb)
                            /\ c2.at = c1.at + n
                            /\ c2.i0 = (c1.i0 + n) % NS

\* two calls of one byte that consumed the same keystream byte
SecondCallContinuesWitness ==
    \E a \in Inst :
        /\ Valid(a)
        /\ \E p \in SameLenCalls(a) :
              /\ Keystream(calls[a][p[1]]) = Keystream(calls[a][p[2]])
              /\ calls[a][p[2]].i0 # calls[a][p[1]].i0

AllZero(f) == \A x \in DOMAIN f : f[x] = 0

\* C8: when ks_destroy calls free on an instance, and ever after, all 256
\* entries of S and all 8 key bytes are zero; the instance is freed once.
ZeroizedBeforeRelease ==
    \A a \in Inst :
        /\ pc[a] \in {"free", "freed"} => AllZero(ks[a].S) /\ AllZero(ks[a].key)
        /\ cnt[a].free = (IF pc[a] = "freed" THEN 1 ELSE 0)
        /\ pc[a] = "freed" => cnt[a].wipe = 1 /\ cnt[a].destroy = 1

\* ks_destroy is about to free an instance that has translated
ZeroizedWitness ==
    \E a \in Inst :
        /\ pc[a] = "free"
        /\ calls[a] # <<>>
        /\ frame[a].key # ULong(<<0, 0, 0, 0, 0, 0, 0, 0>>)
        /\ AllZero(ks[a].key)

\* byte k of a key: (key >> (8 * k)) & 0xFF
ByteOf(key, k) == (key[(k \div 2) + 1] \div (IF k % 2 = 0 THEN 1 ELSE 256)) % 256
Returned(a) == cnt[a].create = 1 /\ Quiescent(a)

\* C10: ks_create returns NULL if and only if malloc failed, and then it has
\* run neither key_to_bytes nor ks_init_state nor ks_prime and there is no
\* storage behind the handle; when malloc succeeded it returns an instance
\* with its key bytes set, key-scheduled once and primed by 1024 steps.
CreateFailsOnlyOnAlloc ==
    \A a \in Inst :
        /\ Returned(a) => (pc[a] = "null" <=> cnt[a].malloc = 0)
        /\ pc[a] = "null" =>
              /\ cnt[a].k2b = 0 /\ cnt[a].ksa = 0 /\ cnt[a].prime = 0 /\ cnt[a].next = 0
              /\ ks[a] = NoStorage
        /\ (pc[a] = "idle" /\ cnt[a].translate = 0) =>
              /\ cnt[a].k2b = 1 /\ cnt[a].ksa = 1 /\ cnt[a].prime = 1
              /\ cnt[a].next = PRIME
              /\ ks[a].key = [k \in 0 .. (KEYLEN - 1) |-> ByteOf(frame[a].key, k)]
              /\ IsPermutation(ks[a].S)

\* one ks_create has returned NULL, another an instance
CreateWitness ==
    \E a, b \in Inst :
        /\ pc[a] = "null"
        /\ cnt[a].malloc = 0
        /\ pc[b] = "idle"
        /\ cnt[b].translate = 0
        /\ cnt[b].next = PRIME

\* C9: main calls ks_create at most once; when main has returned, ks_destroy
\* has been called exactly once if ks_create returned an instance (and that
\* instance is freed) and not at all otherwise; once ks_destroy has been
\* called, no ks_translate call and no ks_next_byte step follows.
Lifecycle ==
    /\ [](/\ cnt[1].create <= 1
          /\ cnt[1].destroy <= 1
          /\ cnt[2] = NoCount
          /\ mpc = "exit" =>
                IF cnt[1].malloc = 1
                THEN cnt[1].destroy = 1 /\ cnt[1].free = 1 /\ pc[1] = "freed"
                ELSE cnt[1].destroy = 0 /\ pc[1] \in {"none", "null"})
    /\ [][cnt[1].destroy = 1 =>
            cnt'[1].translate = cnt[1].translate /\ cnt'[1].next = cnt[1].next]_vars

\* main has returned after a short fwrite of its second chunk
LifecycleWitness ==
    /\ mpc = "exit"
    /\ mloc.status = "FAILURE"
    /\ cnt[1].translate = 2
    /\ cnt[1].next = PRIME + CHUNK + 1
    /\ cnt[1].destroy = 1
    /\ pc[1] = "freed"

\* C11, as claimed: a ks_translate call with len >= 1 on a null instance does
\* not return normally (it fails with a contract error): no call that has
\* returned to the client was made on a NULL handle with bytes to translate.
NullInstanceFailsFast ==
    \A a \in Inst :
        pc[a] = "null" => \A n \in 1 .. Len(calls[a]) : calls[a][n].inb = <<>>

\* what ks_create returns for each key when nothing else runs
Alone == [key \in Keys |-> ks_create_run(key, 0)]
\* what an instance made with key puts out for input when nothing else runs
AloneOutput(key, input) ==
    ks_translate_run([ks |-> Alone[key], outbuf |-> input], input, 0, Len(input)).outbuf
\* the bytes instance a has translated, those of the call in progress included
Translated(a) == Len(Input(a)) + (IF pc[a] = "xlate" THEN frame[a].idx ELSE 0)
StepOn(a) == cnt'[a] # cnt[a] \/ pc'[a] # pc[a] \/ frame'[a] # frame[a]

\* C12: with two threads stepping two instances (same or different keys) in
\* every interleaving, a step on one instance leaves every field of the other
\* (and its buffer) unchanged, and each instance, after every byte and between
\* calls, is in the state and has put out the bytes it comes to when run
\* alone.
Independence ==
    /\ [][\A a, b \in Inst :
            (a # b /\ StepOn(a))
            => /\ ks'[b] = ks[b] /\ outbuf'[b] = outbuf[b] /\ calls'[b] = calls[b]
               /\ pc'[b] = pc[b] /\ frame'[b] = frame[b] /\ cnt'[b] = cnt[b]]_vars
    /\ [](\A a \in Inst :
            (Valid(a) /\ pc[a] \in {"idle", "xlate"})
            => /\ ks[a] = ks_next_byte_run(Alone[frame[a].key], Translated(a))
               /\ Output(a) = AloneOutput(frame[a].key, Input(a))
               /\ pc[a] = "xlate" =>
                     SubSeq(outbuf[a], 1, frame[a].idx)
                     = SubSeq(AloneOutput(frame[a].key, Input(a) \o frame[a].inbuf),
                              Len(Input(a)) + 1, Translated(a)))

\* both threads are in the middle of a call of two bytes, one byte done each,
\* on instances with the same key
IndependenceWitness ==
    /\ pc[1] = "xlate" /\ pc[2] = "xlate"
    /\ frame[1].key = frame[2].key
    /\ frame[1].len = 2 /\ frame[2].len = 2
    /\ frame[1].idx = 1 /\ frame[2].idx = 1
    /\ ks[1] = ks[2]
    /\ ks[1] = ks_next_byte_run(Alone[frame[1].key], 1)

\* the instance as ks_init_state leaves it for key
PostKSA(key) ==
    LET bytes == key_to_bytes(key, Fresh(0).key)
        r == ks_init_state_run([S |-> [v \in 0 .. (NS - 1) |-> v], j |-> 0], bytes, 0, NS)
    IN  KStream(r.S, 0, 0, bytes)

RECURSIVE Emitted(_, _)
\* n ks_next_byte steps from k: the instance after them and the bytes returned
Emitted(k, n) ==
    IF n = 0 THEN [ks |-> k, out |-> <<>>]
    ELSE IF n = 1 THEN LET r == ks_next_byte(k) IN [ks |-> r.ks, out |-> <<r.B>>]
    ELSE LET h == n \div 2
             half == Emitted(k, h)
         IN  IF DOMAIN half = {} THEN half
             ELSE LET rest == Emitted(half.ks, n - h)
                  IN  [ks |-> rest.ks, out |-> half.out \o rest.out]

\* Emission[key][m]: generator emission number m counted from the post-KSA state
Emission == [key \in Keys |-> Emitted(PostKSA(key), PRIME + MaxBytes).out]

\* C13: key scheduling and priming run once per instance, inside ks_create,
\* priming right after key scheduling: it makes exactly 1024 ks_next_byte
\* steps whose bytes go nowhere; no later operation runs either again; and the
\* n-th byte an instance translates over its lifetime is XORed with generator
\* emission number 1024 + n counted from the post-KSA state.
PrimedOnce ==
    \A a \in Inst :
        /\ cnt[a].k2b <= 1 /\ cnt[a].ksa <= 1 /\ cnt[a].prime <= 1
        /\ pc[a] \in {"k2b", "fill", "ksa"} => cnt[a].next = 0 /\ cnt[a].ksa = 0
        /\ pc[a] = "prime" =>
              /\ cnt[a].ksa = 1 /\ cnt[a].prime = 0
              /\ cnt[a].next = frame[a].t /\ frame[a].t <= PRIME
              /\ outbuf[a] = [n \in 1 .. MaxBytes |-> 238] /\ calls[a] = <<>>
        /\ pc[a] \in {"idle", "xlate", "free", "freed"} =>
              /\ cnt[a].ksa = 1 /\ cnt[a].prime = 1
              /\ cnt[a].next = PRIME + Translated(a)
        /\ Valid(a) => \A n \in 1 .. Len(Input(a)) :
                          Output(a)[n] = Xor(Input(a)[n], Emission[frame[a].key][PRIME + n])

\* an instance has translated three bytes in two calls
PrimedOnceWitness ==
    \E a \in Inst :
        /\ pc[a] = "idle"
        /\ Len(calls[a]) = 2
        /\ Len(Input(a)) = 3
        /\ calls[a][1].inb # <<>>
        /\ cnt[a].next = PRIME + 3
        /\ Output(a)[3] = Xor(Input(a)[3], Emission[frame[a].key][PRIME + 3])
        /\ Emission[frame[a].key][3] # Emission[frame[a].key][PRIME + 3]

\* the reference key scheduling of RC4 on 8 key bytes: one iteration, on [S, j]
RefStep(bytes, st, i) ==
    LET j == (st.j + st.S[i] + bytes[i % 8]) % 256
    IN  [S |-> [st.S EXCEPT ![j] = st.S[i], ![i] = st.S[j]], j |-> j]
RECURSIVE RefKSA(_, _, _, _)
\* the states after each of the iterations i .. i + n - 1 from st, in order
RefKSA(bytes, st, i, n) ==
    IF n = 0 THEN <<>>
    ELSE IF n = 1 THEN <<RefStep(bytes, st, i)>>
    ELSE LET h == n \div 2
             first == RefKSA(bytes, st, i, h)
         IN  IF first = <<>> THEN first
             ELSE first \o RefKSA(bytes, first[h], i + h, n - h)
\* Reference(key)[n + 1]: [S, j] after the iterations i = 0 .. n - 1, from the
\* identity and j = 0
RefTable(key) ==
    LET start == [S |-> [x \in 0 .. 255 |-> x], j |-> 0]
    IN  <<start>> \o RefKSA([k \in 0 .. 7 |-> ByteOf(key, k)], start, 0, 256)
RefTables == {[key |-> k, tab |-> RefTable(k)] : k \in KeySamples}
Reference(key) == (CHOOSE r \in RefTables : r.key = key).tab

\* C14: for every key, ks_init_state is the reference key scheduling on its 8
\* bytes: before iteration i (and after the last) S and the carried j are
\* those of the reference after i iterations from the identity and j = 0, and
\* when ks_init_state returns, S is the reference's final S and i = j = 0.
KsaMatchesReference ==
    \A a \in Inst :
        /\ pc[a] = "ksa" =>
              /\ frame[a].i <= NS
              /\ ks[a].S = Reference(frame[a].key)[frame[a].i + 1].S
              /\ frame[a].j = Reference(frame[a].key)[frame[a].i + 1].j
        /\ (pc[a] = "prime" /\ frame[a].t = 0) =>
              /\ ks[a].S = Reference(frame[a].key)[NS + 1].S
              /\ ks[a].i = 0 /\ ks[a].j = 0

\* ks_init_state has returned for the key whose 8 bytes all differ
KsaWitness ==
    \E a \in Inst :
        /\ pc[a] = "prime"
        /\ frame[a].t = 0
        /\ frame[a].key = KeyBytesDistinct
        /\ ks[a].S = Reference(KeyBytesDistinct)[NS + 1].S
        /\ ks[a].S # [v \in 0 .. (NS - 1) |-> v]
        /\ Reference(KeyBytesDistinct)[NS + 1].j # 0

\* a step in which instance a makes one call of ks_next_byte
NextByteStep(a) == cnt'[a].next = cnt[a].next + 1

\* C15: every ks_next_byte call, in ks_prime and in ks_translate, sets i to
\* (i + 1) mod 256, then j to (j + S[i]) mod 256 with the new i, then swaps
\* S[i] and S[j], changing S nowhere else (and nothing else of the instance);
\* it returns one byte, S[(S[i] + S[j]) mod 256] of the array after the swap,
\* which in ks_translate is the byte XORed into the one position written.
GeneratorStep ==
    [][\A a \in Inst :
        /\ cnt'[a].next \in {cnt[a].next, cnt[a].next + 1}
        /\ NextByteStep(a) =>
              LET i == (ks[a].i + 1) % 256
                  j == (ks[a].j + ks[a].S[i]) % 256
                  S == ks'[a].S
              IN  /\ ks'[a].i = i
                  /\ ks'[a].j = j
                  /\ S[i] = ks[a].S[j]
                  /\ S[j] = ks[a].S[i]
                  /\ \A x \in (0 .. 255) \ {i, j} : S[x] = ks[a].S[x]
                  /\ ks'[a].key = ks[a].key
                  /\ IF pc[a] = "xlate"
                     THEN /\ outbuf'[a][frame[a].idx + 1]
                             = Xor(frame[a].inbuf[frame[a].idx + 1], S[(S[i] + S[j]) % 256])
                          /\ \A n \in DOMAIN outbuf[a] \ {frame[a].idx + 1} :
                                outbuf'[a][n] = outbuf[a][n]
                          /\ frame'[a].idx = frame[a].idx + 1
                     ELSE outbuf'[a] = outbuf[a]]_vars

\* ks_translate has made its second ks_next_byte call, which swapped two
\* different entries of S
GeneratorStepWitness ==
    \E a \in Inst :
        /\ pc[a] = "xlate"
        /\ frame[a].idx = 2
        /\ cnt[a].next = PRIME + 2
        /\ ks[a].i = 2
        /\ ks[a].j # ks[a].i
        /\ outbuf[a][2] = Xor(frame[a].inbuf[2],
                              ks[a].S[(ks[a].S[ks[a].i] + ks[a].S[ks[a].j]) % 256])

\* C16: for every key, key_to_bytes stores byte k = (key >> (8 * k)) & 0xFF
\* in key[k], k = 0 .. 7, least significant first; the bytes stay as stored,
\* and iteration i of the key scheduling adds key byte i mod 8 of these to j.
KeyExpansion ==
    /\ [](\A a \in Inst :
            pc[a] \in {"fill", "ksa", "prime", "idle"}
            => ks[a].key = [k \in 0 .. 7 |-> ByteOf(frame[a].key, k)])
    /\ [][\A a \in Inst :
            (pc[a] = "ksa" /\ frame'[a].i = frame[a].i + 1)
            => frame'[a].j = (frame[a].j + ks[a].S[frame[a].i]
                                + ByteOf(frame[a].key, frame[a].i % 8)) % 256]_vars

\* key scheduling has gone once round the 8 bytes of 0xFF01000080FF80FF
KeyExpansionWitness ==
    /\ pc[1] = "ksa"
    /\ frame[1].i = 9
    /\ frame[1].key = <<33023, 33023, 0, 65281>>
    /\ ks[1].key = [k \in 0 .. 7 |-> <<255, 128, 255, 128, 0, 0, 1, 255>>[k + 1]]

RECURSIVE SumSeq(_)
SumSeq(q) == IF q = <<>> THEN 0 ELSE Head(q) + SumSeq(Tail(q))

\* C17, as claimed: for an input file of n bytes and no write failure, main
\* passes ks_translate between 1 and 4096 bytes per call, the bytes of each
\* call being the next bytes of the file in order, each byte meeting the next
\* position of the one instance's keystream; the loop ends after at most
\* n div 4096 + 1 calls, and when main returns success the lengths it passed
\* sum to exactly n.
FeedsWholeInput ==
    /\ cnt[2] = NoCount
    /\ \A n \in 1 .. Len(mloc.passed) : mloc.passed[n] \in 1 .. CHUNK
    /\ Len(mloc.passed) <= (env.infile.len \div CHUNK) + 1
    /\ mpc = "write" =>
          /\ SumSeq(mloc.passed) = mloc.inpos
          /\ cnt[1].next = PRIME + mloc.inpos
          /\ frame[1].len = mloc.nread
          /\ \A t \in 1 .. mloc.nread :
                frame[1].inbuf[t] = InByte(env.infile, mloc.inpos - mloc.nread + t - 1)
    /\ (mpc = "exit" /\ mloc.status = "SUCCESS") => SumSeq(mloc.passed) = env.infile.len

\* C18: from the end of key scheduling on, i and j are in 0 .. 255 and i is
\* the number of ks_next_byte steps made since key scheduling, mod 256: i is
\* 0 when ks_create returns, and n mod 256 when n bytes in total have been
\* translated on the instance.
IndexInvariant ==
    \A a \in Inst :
        pc[a] \in {"prime", "idle", "xlate"}
        => /\ ks[a].i \in 0 .. 255
           /\ ks[a].j \in 0 .. 255
           /\ ks[a].i = cnt[a].next % 256
           /\ (pc[a] = "idle" /\ cnt[a].translate = 0) => ks[a].i = 0
           /\ pc[a] \in {"idle", "xlate"} => ks[a].i = Translated(a) % 256

\* an instance between calls after three bytes, j having moved as well
IndexWitness ==
    \E a \in Inst :
        /\ pc[a] = "idle"
        /\ Len(Input(a)) = 3
        /\ cnt[a].next = PRIME + 3
        /\ ks[a].i = 3
        /\ ks[a].j \notin {0, 3}

\* a run whose key file holds 8 bytes or more and whose other files open
KeyReadable ==
    /\ env.argc = 4
    /\ env.keyfile.there
    /\ Len(env.keyfile.bytes) >= KEYLEN
    /\ env.infile.there
    /\ env.outpath # "denied"

\* C19, as claimed: whatever 64-bit value main reads from a key file of 8
\* bytes or more, it goes on to call ks_create with exactly that value: the
\* run does not end before ks_create is called, and the key ks_create is
\* given is the value of the file's first 8 bytes.
EveryKeyAccepted ==
    KeyReadable
    => /\ mpc = "exit" => cnt[1].create = 1
       /\ cnt[1].create = 1 => frame[1].key = ULong(env.keyfile.bytes)

====
